---- MODULE Spec2Model ----
(***************************************************************************)
(* A model of bridge_functions.py: the bridge dataset, its queries         *)
(* (radius query, condition lookup, average), the greedy route planner,    *)
(* the in-place inspection update and the raw-row cleaner.                 *)
(*                                                                         *)
(* Representation.  A Python float is an integer number of millionths      *)
(* (72.3 is 72300000, a distance of 1.968 km is 1968000), which is exact   *)
(* for every decimal text of at most six fractional digits; a Python str   *)
(* is a sequence of one-character strings, so that slicing, isdigit(),     *)
(* int(), str() and float() are computed character by character; a Python  *)
(* list is a sequence; None is the identifier NoneId, which no bridge has. *)
(***************************************************************************)
EXTENDS Integers, Sequences, FiniteSets, TLC

VARIABLES
    bridges,        \* the bridge collection (list of bridge records)
    pc,             \* position of the running operation
    lat, lon,       \* the point a query or a route starts from
    radius,         \* radius in kilometres (an int)
    max_bridges,    \* map_route's max_bridges
    visited,        \* map_route's visited list
    current_lat,    \* map_route's current position
    current_lon,
    bridge_ids,     \* list argument: candidate ids / exclusions
    start, stop,    \* calculate_average_condition's year bounds
    raw_spans,      \* clean_span_data's argument
    scan,           \* clean_span_data's locals: [i, spans]
    data,           \* clean_data's list of rows, cleaned in place
    raw_rows,       \* the rows as they were read, before cleaning
    start_year,     \* clean_data's start_year
    result          \* value returned by the last call

queryVars == <<lat, lon, radius, bridge_ids, start, stop>>

routeVars == <<max_bridges, visited, current_lat, current_lon>>

textVars == <<raw_spans, scan, data, raw_rows, start_year>>

vars == <<bridges, pc, queryVars, routeVars, textVars, result>>

\* the variables of the operations that are not running
QueryIdle ==
    /\ lat = 0 /\ lon = 0 /\ radius = 0 /\ bridge_ids = <<>>
    /\ start = 0 /\ stop = 0

RouteIdle ==
    /\ max_bridges = 0 /\ visited = <<>> /\ current_lat = 0 /\ current_lon = 0

TextIdle ==
    /\ raw_spans = <<>> /\ scan = [i |-> 0, spans |-> <<>>]
    /\ data = <<>> /\ raw_rows = <<>> /\ start_year = 0

----------------------------------------------------------------------------
(* Numbers and text *)

Unit == 10^6

MISSING_BCI == -1 * Unit

NoneId == 0

DigitChars == <<"0", "1", "2", "3", "4", "5", "6", "7", "8", "9">>

isdigit(c) == \E d \in 1..10 : DigitChars[d] = c

DigitVal(c) == (CHOOSE d \in 1..10 : DigitChars[d] = c) - 1

Pow10(n) == 10^n

\* str[a:b] with 0-based, end-exclusive Python indices, 0 <= a
Slice(s, a, b) ==
    LET e == IF b > Len(s) THEN Len(s) ELSE b
    IN  IF a >= e THEN <<>> ELSE SubSeq(s, a + 1, e)

RECURSIVE NatOf(_)
\* value of a run of decimal digits
NatOf(s) ==
    IF s = <<>> THEN 0
    ELSE 10 * NatOf(SubSeq(s, 1, Len(s) - 1)) + DigitVal(s[Len(s)])

\* int(str) on an optionally signed run of digits
int(s) == IF s # <<>> /\ s[1] = "-" THEN 0 - NatOf(Tail(s)) ELSE NatOf(s)

RECURSIVE NatStr(_)
NatStr(n) ==
    IF n < 10 THEN <<DigitChars[n + 1]>>
    ELSE Append(NatStr(n \div 10), DigitChars[(n % 10) + 1])

\* str(int)
str(n) == IF n < 0 THEN <<"-">> \o NatStr(0 - n) ELSE NatStr(n)

IndexOfDot(s) ==
    IF \E k \in 1..Len(s) : s[k] = "."
    THEN CHOOSE k \in 1..Len(s) : s[k] = "." /\ \A m \in 1..(k - 1) : s[m] # "."
    ELSE 0

\* float(str) on [-]digits[.digits] with at most six fractional digits (the
\* empty string, on which Python raises ValueError, is never passed)
float(s) ==
    LET neg  == s # <<>> /\ s[1] = "-"
        body == IF neg THEN Tail(s) ELSE s
        dot  == IndexOfDot(body)
        ip   == IF dot = 0 THEN body ELSE SubSeq(body, 1, dot - 1)
        fp   == IF dot = 0 THEN <<>> ELSE SubSeq(body, dot + 1, Len(body))
        mag  == NatOf(ip) * Unit + NatOf(fp) * Pow10(6 - Len(fp))
    IN  IF neg THEN 0 - mag ELSE mag

----------------------------------------------------------------------------
(* Locations and calculate_distance *)

\* (lat, lon) in millionths of a degree: the three EXAMPLE_BRIDGES sites, a
\* point 2.000 km north of the first, and the two doctest start points.
Points ==
    << <<43167233, -80275567>>, <<43164531, -80251582>>,
       <<45036739, -81335790>>, <<43185215, -80275567>>,
       <<43100000, -80150000>>, <<43100000, -80500000>> >>

\* round(c * EARTH_RADIUS, 3) of the haversine formula for each pair of Points,
\* in metres, as calculate_distance returns them (it is symmetric on them)
HaversineMetres ==
    << <<0, 1968, 224451, 2000, 12638, 19687>>,
       <<1968, 0, 225459, 3012, 10929, 21398>>,
       <<224451, 225459, 0, 222596, 235266, 225467>>,
       <<2000, 3012, 222596, 0, 13913, 20527>>,
       <<12638, 10929, 235266, 13913, 0, 28417>>,
       <<19687, 21398, 225467, 20527, 28417, 0>> >>

PointIndex(la, lo) == CHOOSE k \in 1..Len(Points) : Points[k] = <<la, lo>>

calculate_distance(lat1, lon1, lat2, lon2) ==
    HaversineMetres[PointIndex(lat1, lon1)][PointIndex(lat2, lon2)] * 1000

----------------------------------------------------------------------------
(* Part 1 - querying *)

RECURSIVE Contains(_, _)
\* x in list
Contains(list, x) ==
    IF list = <<>> THEN FALSE
    ELSE IF Head(list) = x THEN TRUE ELSE Contains(Tail(list), x)

RECURSIVE find_bridge_by_id(_, _)
\* the first record with the id, or the empty list
find_bridge_by_id(bs, bridge_id) ==
    IF bs = <<>> THEN <<>>
    ELSE IF Head(bs).id = bridge_id THEN Head(bs)
         ELSE find_bridge_by_id(Tail(bs), bridge_id)

\* a radius test that leaves out the bridges exactly at radius
InRadiusStrict(distance, r) == distance < r * Unit

\* distance <= radius, a float against an int number of kilometres
InRadius(distance, r) == distance <= r * Unit

RECURSIVE find_bridges_in_radius(_, _, _, _, _)
find_bridges_in_radius(bs, la, lo, r, excl) ==
    IF bs = <<>> THEN <<>>
    ELSE LET i    == Head(bs)
             rest == find_bridges_in_radius(Tail(bs), la, lo, r, excl)
         IN  IF ~Contains(excl, i.id)
                /\ InRadius(calculate_distance(i.lat, i.lon, la, lo), r)
             THEN <<i.id>> \o rest
             ELSE rest

RECURSIVE FirstValid(_)
\* the first score that is not MISSING_BCI, as <<score>>, or <<>>
FirstValid(scores) ==
    IF scores = <<>> THEN <<>>
    ELSE IF Head(scores) # MISSING_BCI THEN <<Head(scores)>>
         ELSE FirstValid(Tail(scores))

RECURSIVE get_bridge_condition(_, _)
get_bridge_condition(bs, bridge_id) ==
    IF bs = <<>> THEN MISSING_BCI
    ELSE IF Head(bs).id = bridge_id /\ FirstValid(Head(bs).scores) # <<>>
         THEN FirstValid(Head(bs).scores)[1]
         ELSE get_bridge_condition(Tail(bs), bridge_id)

RECURSIVE Gcd(_, _)
Gcd(a, b) == IF b = 0 THEN a ELSE Gcd(b, a % b)

\* the float total / count as an exact quotient in lowest terms, count > 0
Quotient(total, count) ==
    LET g == Gcd(IF total < 0 THEN 0 - total ELSE total, count)
    IN  [num |-> total \div g, den |-> count \div g]

\* the float 0.0
Zero == [num |-> 0, den |-> 1]

\* a window that leaves out the year stop
InWindowExclusive(year, a, b) == a <= year /\ year < b

\* the test on the year in calculate_average_condition's loop
InWindow(year, a, b) == a <= year /\ year <= b

RECURSIVE AverageLoop(_, _, _, _, _)
\* the loop over range(len(years)), acc = [total, count]
AverageLoop(years, scores, a, b, acc) ==
    IF years = <<>> THEN acc
    ELSE LET year == int(Head(years))
             nxt  == IF InWindow(year, a, b) /\ Head(scores) # MISSING_BCI
                     THEN [total |-> acc.total + Head(scores),
                           count |-> acc.count + 1]
                     ELSE acc
         IN  AverageLoop(Tail(years), Tail(scores), a, b, nxt)

calculate_average_condition(bridge, a, b) ==
    LET acc == AverageLoop(bridge.years, bridge.scores, a, b,
                           [total |-> 0, count |-> 0])
    IN  IF acc.count = 0 THEN Zero ELSE Quotient(acc.total, acc.count)

----------------------------------------------------------------------------
(* Part 2 - mutating *)

\* every record with the id has its date set and entry 0 of its years and
\* scores assigned
inspect_bridge(bs, bridge_id, inspect_date, inspect_bci) ==
    LET new_year == Slice(inspect_date, 6, 10)
    IN  [k \in 1..Len(bs) |->
            IF bs[k].id = bridge_id
            THEN [bs[k] EXCEPT !.last_inspected = inspect_date,
                               !.years[1] = new_year,
                               !.scores[1] = inspect_bci]
            ELSE bs[k]]

----------------------------------------------------------------------------
(* Part 3 - algorithms *)

\* a pass that keeps the first bridge found among equal scores
WorstStepFirstWins(acc, i, ids) ==
    IF ~Contains(ids, i.id) THEN acc
    ELSE LET fv == FirstValid(i.scores)
         IN  IF fv = <<>> THEN acc
             ELSE IF ~acc.set \/ fv[1] < acc.lowest_bci
                  THEN [set |-> TRUE, lowest_bci |-> fv[1], worst_bridge_id |-> i.id]
                  ELSE acc

\* one pass of find_worst_bci's outer loop over bridge i; acc is
\* [set, lowest_bci, worst_bridge_id], set = FALSE while both are None
WorstStep(acc, i, ids) ==
    IF ~Contains(ids, i.id) THEN acc
    ELSE LET fv == FirstValid(i.scores)
         IN  IF fv = <<>> THEN acc
             ELSE IF ~acc.set \/ fv[1] < acc.lowest_bci
                  THEN [set |-> TRUE, lowest_bci |-> fv[1], worst_bridge_id |-> i.id]
                  ELSE IF fv[1] = acc.lowest_bci /\ i.id < acc.worst_bridge_id
                       THEN [acc EXCEPT !.worst_bridge_id = i.id]
                       ELSE acc

RECURSIVE WorstLoop(_, _, _)
WorstLoop(acc, bs, ids) ==
    IF bs = <<>> THEN acc
    ELSE WorstLoop(WorstStep(acc, Head(bs), ids), Tail(bs), ids)

find_worst_bci(bs, ids) ==
    WorstLoop([set |-> FALSE, lowest_bci |-> 0, worst_bridge_id |-> NoneId],
              bs, ids).worst_bridge_id

RECURSIVE RouteCandidatesUnfiltered(_, _, _, _, _)
\* a candidate loop that forgets the visited list
RouteCandidatesUnfiltered(bs, vis, cla, clo, r) ==
    IF bs = <<>> THEN <<>>
    ELSE LET i    == Head(bs)
             rest == RouteCandidatesUnfiltered(Tail(bs), vis, cla, clo, r)
         IN  IF calculate_distance(i.lat, i.lon, cla, clo) <= r * Unit
             THEN <<i.id>> \o rest
             ELSE rest

RECURSIVE RouteCandidates(_, _, _, _, _)
\* map_route's inner loop building candidates
RouteCandidates(bs, vis, cla, clo, r) ==
    IF bs = <<>> THEN <<>>
    ELSE LET i    == Head(bs)
             rest == RouteCandidates(Tail(bs), vis, cla, clo, r)
         IN  IF ~Contains(vis, i.id)
                /\ calculate_distance(i.lat, i.lon, cla, clo) <= r * Unit
             THEN <<i.id>> \o rest
             ELSE rest

RECURSIVE RoutePosition(_, _, _, _)
\* map_route's closing loop: the coordinates of the first record with id
\* next_bridge, or the position unchanged when there is none
RoutePosition(bs, next_bridge, cla, clo) ==
    IF bs = <<>> THEN <<cla, clo>>
    ELSE IF Head(bs).id = next_bridge THEN <<Head(bs).lat, Head(bs).lon>>
         ELSE RoutePosition(Tail(bs), next_bridge, cla, clo)

----------------------------------------------------------------------------
(* Part 4 - reading and cleaning raw data *)

COLUMN_ID == 0

COLUMN_LAT == 3

COLUMN_LON == 4

COLUMN_NUM_SPANS == 8

COLUMN_SPAN_DETAILS == 9

COLUMN_DECK_LENGTH == 10

COLUMN_BCI == 12

clean_length_data(raw_length) ==
    IF raw_length = <<>> THEN 0 ELSE float(raw_length)

RECURSIVE trim_from_end(_, _)
\* count times raw_data.pop()
trim_from_end(raw_data, count) ==
    IF count <= 0 THEN raw_data
    ELSE trim_from_end(SubSeq(raw_data, 1, Len(raw_data) - 1), count - 1)

\* raw_spans[i] == '=' and i > 6, i counted from 0
AtSpanValue(raw, i) == raw[i + 1] = "=" /\ i > 6

RECURSIVE DigitRunEnd(_, _)
\* while j < len(raw_spans) and raw_spans[j].isdigit(): j += 1
DigitRunEnd(raw, j) ==
    IF j < Len(raw) /\ isdigit(raw[j + 1]) THEN DigitRunEnd(raw, j + 1) ELSE j

\* one pass of clean_span_data's outer while loop, sc = [i, spans]
SpanStep(raw, sc) ==
    IF AtSpanValue(raw, sc.i)
    THEN LET j == DigitRunEnd(raw, sc.i + 1)
         IN  [i |-> j, spans |-> Append(sc.spans, float(Slice(raw, sc.i + 1, j)))]
    ELSE [sc EXCEPT !.i = sc.i + 1]

RECURSIVE SpanLoop(_, _)
SpanLoop(raw, sc) ==
    IF sc.i < Len(raw) THEN SpanLoop(raw, SpanStep(raw, sc)) ELSE sc.spans

clean_span_data(raw) == SpanLoop(raw, [i |-> 0, spans |-> <<>>])

RECURSIVE clean_bci_data(_, _, _)
\* the loop over range(len(bci_scores)) from index i on; returns
\* [bci_years, bci_scores] as the two lists stand after the call
clean_bci_data(sy, bci_scores, i) ==
    IF i >= Len(bci_scores) THEN <<<<>>, <<>>>>
    ELSE LET rest  == clean_bci_data(sy, bci_scores, i + 1)
             score == IF bci_scores[i + 1] = <<>> THEN MISSING_BCI
                      ELSE float(bci_scores[i + 1])
         IN  << <<str(sy - i)>> \o rest[1], <<score>> \o rest[2] >>

\* a slice that takes the field at COLUMN_BCI as a score too
ScoreFieldsFromColumnBci(row) == Slice(row, COLUMN_BCI, Len(row))

\* row[COLUMN_BCI + 1:]
ScoreFields(row) == Slice(row, COLUMN_BCI + 1, Len(row))

\* the body of clean_data's loop for one row
CleanRow(row, next_id, sy) ==
    LET typed == [row EXCEPT ![COLUMN_ID + 1] = next_id,
                             ![COLUMN_LAT + 1] = float(@),
                             ![COLUMN_LON + 1] = float(@),
                             ![COLUMN_NUM_SPANS + 1] = int(@),
                             ![COLUMN_DECK_LENGTH + 1] = clean_length_data(@),
                             ![COLUMN_SPAN_DETAILS + 1] = clean_span_data(@)]
        bci_scores == ScoreFields(typed)
        cleaned == clean_bci_data(sy, bci_scores, 0)
        folded == [typed EXCEPT ![COLUMN_BCI + 1] = cleaned]
    IN  trim_from_end(folded, Len(folded) - COLUMN_BCI - 1)

RECURSIVE CleanRows(_, _, _)
CleanRows(rows, next_id, sy) ==
    IF rows = <<>> THEN <<>>
    ELSE <<CleanRow(Head(rows), next_id, sy)>> \o CleanRows(Tail(rows), next_id + 1, sy)

clean_data(rows, sy) == CleanRows(rows, 1, sy)

----------------------------------------------------------------------------
(* The dataset *)

MaxN == 3

StartYear == 2013

ExampleDate == <<"0", "4", "/", "1", "3", "/", "2", "0", "1", "2">>

RECURSIVE YearsFrom(_, _)
\* the years list clean_bci_data synthesises: n strings counting down
YearsFrom(y, n) ==
    IF n = 0 THEN <<>>
    ELSE <<str(y)>> \o YearsFrom(y - 1, n - 1)

\* a cleaned bridge record: the pool bridge k stands at Points[k], like
\* EXAMPLE_BRIDGES, with the given condition scores (most recent first)
Bridge(k, scores) ==
    [id |-> k, lat |-> Points[k][1], lon |-> Points[k][2],
     last_inspected |-> ExampleDate,
     years |-> YearsFrom(StartYear, Len(scores)), scores |-> scores]

\* condition histories: nothing measured, an older score behind a missing
\* one, a recent score above an older one
Histories ==
    { <<MISSING_BCI, MISSING_BCI>>, <<MISSING_BCI, 60500000>>,
      <<72300000, 60500000>> }

\* sequences of distinct elements of S, of length n
DistinctSeqs(S, n) ==
    { q \in [1..n -> S] : \A a, b \in 1..n : a # b => q[a] # q[b] }

\* every collection of at most MaxN pool bridges, in every order, with
\* histories drawn from H
CollectionsOver(H) ==
    UNION { UNION { { [k \in 1..n |-> Bridge(q[k], h[k])] : h \in [1..n -> H] }
                    : q \in DistinctSeqs(1..MaxN, n) }
            : n \in 0..MaxN }

Collections == CollectionsOver(Histories)

\* the collections whose bridges stand in increasing order of id
OrderedCollections ==
    { c \in Collections : \A a, b \in 1..Len(c) : a < b => c[a].id < c[b].id }

\* every list of distinct ids, known to the collection or not
IdLists == UNION { DistinctSeqs(1..MaxN, n) : n \in 0..MaxN }

Elems(list) == { list[k] : k \in 1..Len(list) }

NoDuplicates(list) == \A a, b \in 1..Len(list) : a # b => list[a] # list[b]

StartPoints == { Points[4], Points[5], Points[6] }

Radii == {2, 50, 230}

MaxRoute == 3

Ids(bs) == { bs[k].id : k \in 1..Len(bs) }

----------------------------------------------------------------------------
(* map_route, one action per pass of its while loop *)

RouteInitOver(C, S) ==
    /\ bridges \in C
    /\ \E p \in S : lat = p[1] /\ lon = p[2]
    /\ radius \in Radii
    /\ max_bridges \in -1..MaxRoute
    /\ visited = <<>>
    /\ current_lat = lat
    /\ current_lon = lon
    /\ pc = "loop"
    /\ bridge_ids = <<>> /\ start = 0 /\ stop = 0
    /\ result = <<>>
    /\ TextIdle

RouteInit == RouteInitOver(Collections, StartPoints)

\* a while condition that admits one pass too many
LoopConditionInclusive(vis, mb) == Len(vis) <= mb

\* the while condition
LoopCondition(vis, mb) == Len(vis) < mb

\* a pass that finds candidates and appends the worst of them
RouteVisit ==
    /\ pc = "loop"
    /\ LoopCondition(visited, max_bridges)
    /\ LET candidates == RouteCandidates(bridges, visited, current_lat,
                                         current_lon, radius)
       IN  /\ candidates # <<>>
           /\ LET next_bridge == find_worst_bci(bridges, candidates)
                  pos == RoutePosition(bridges, next_bridge, current_lat,
                                       current_lon)
              IN  /\ visited' = Append(visited, next_bridge)
                  /\ current_lat' = pos[1]
                  /\ current_lon' = pos[2]
    /\ UNCHANGED <<bridges, pc, queryVars, max_bridges, textVars, result>>

\* the loop ends: max_bridges reached, or no candidates (break); return visited
RouteReturn ==
    /\ pc = "loop"
    /\ \/ ~LoopCondition(visited, max_bridges)
       \/ RouteCandidates(bridges, visited, current_lat, current_lon, radius) = <<>>
    /\ pc' = "done"
    /\ result' = visited
    /\ UNCHANGED <<bridges, queryVars, routeVars, textVars>>

RouteNext == RouteVisit \/ RouteReturn

RouteSpec == RouteInit /\ [][RouteNext]_vars

\* the call runs to completion: nothing suspends map_route
RouteFairSpec ==
    /\ RouteInitOver(OrderedCollections, {Points[4], Points[5]})
    /\ [][RouteNext]_vars
    /\ WF_vars(RouteNext)

----------------------------------------------------------------------------
(* find_bridges_in_radius and find_worst_bci, each called once on drawn
   arguments *)

ExampleHistory == <<72300000, 60500000>>

RadiusInit ==
    /\ bridges \in CollectionsOver({ExampleHistory})
    /\ \E k \in 1..Len(Points) : lat = Points[k][1] /\ lon = Points[k][2]
    /\ radius \in Radii
    /\ bridge_ids \in IdLists
    /\ start = 0 /\ stop = 0
    /\ pc = "call"
    /\ result = <<>>
    /\ RouteIdle
    /\ TextIdle

CallFindBridgesInRadius ==
    /\ pc = "call"
    /\ result' = find_bridges_in_radius(bridges, lat, lon, radius, bridge_ids)
    /\ pc' = "done"
    /\ UNCHANGED <<bridges, queryVars, routeVars, textVars>>

RadiusSpec == RadiusInit /\ [][CallFindBridgesInRadius]_vars

WorstInit ==
    /\ bridges \in Collections
    /\ bridge_ids \in IdLists
    /\ lat = 0 /\ lon = 0 /\ radius = 0 /\ start = 0 /\ stop = 0
    /\ pc = "call"
    /\ result = NoneId
    /\ RouteIdle
    /\ TextIdle

CallFindWorstBci ==
    /\ pc = "call"
    /\ result' = find_worst_bci(bridges, bridge_ids)
    /\ pc' = "done"
    /\ UNCHANGED <<bridges, queryVars, routeVars, textVars>>

WorstSpec == WorstInit /\ [][CallFindWorstBci]_vars

MaxHist == 3

ScoreValues == {MISSING_BCI, 60500000, 72300000}

\* a bridge with up to MaxHist yearly scores, its years as cleaned or with
\* entry 0 rewritten by a later inspection
AverageBridges ==
    UNION { UNION { { [Bridge(1, h) EXCEPT !.years[1] = str(y)]
                      : y \in {StartYear, StartYear + 2} }
                    : h \in [1..n -> ScoreValues] }
            : n \in 1..MaxHist }

AverageInit ==
    /\ \E b \in AverageBridges : bridges = <<b>>
    /\ start \in (StartYear - MaxHist)..(StartYear + 2)
    /\ stop \in (StartYear - MaxHist)..(StartYear + 2)
    /\ lat = 0 /\ lon = 0 /\ radius = 0 /\ bridge_ids = <<>>
    /\ pc = "call"
    /\ result = Zero
    /\ RouteIdle
    /\ TextIdle

CallCalculateAverageCondition ==
    /\ pc = "call"
    /\ result' = calculate_average_condition(bridges[1], start, stop)
    /\ pc' = "done"
    /\ UNCHANGED <<bridges, queryVars, routeVars, textVars>>

AverageSpec == AverageInit /\ [][CallCalculateAverageCondition]_vars

\* 'MM/DD/YYYY' dates and scores of later inspections
InspectDates ==
    { <<"0", "2", "/", "1", "4", "/", "2", "0", "2", "1">>,
      <<"0", "8", "/", "2", "8", "/", "2", "0", "1", "4">> }

InspectScores == {71900000, 55000000}

InspectInit ==
    /\ bridges \in Collections
    /\ pc = "idle"
    /\ result = <<>>
    /\ QueryIdle
    /\ RouteIdle
    /\ TextIdle

CallInspectBridge ==
    /\ pc = "idle"
    /\ \E bridge_id \in 1..MaxN, inspect_date \in InspectDates,
          inspect_bci \in InspectScores :
          bridges' = inspect_bridge(bridges, bridge_id, inspect_date, inspect_bci)
    /\ UNCHANGED <<pc, queryVars, routeVars, textVars, result>>

InspectSpec == InspectInit /\ [][CallInspectBridge]_vars

----------------------------------------------------------------------------
(* clean_span_data, one action per pass of its while loop, and clean_data *)

MaxSpans == 2

TotalPrefix == <<"T", "o", "t", "a", "l", "=">>

RECURSIVE SpanFields(_, _)
\* "(k)=<len>;" for each length text from the k-th on
SpanFields(lens, k) ==
    IF k > Len(lens) THEN <<>>
    ELSE <<"(">> \o str(k) \o <<")", "=">> \o lens[k] \o <<";">>
            \o SpanFields(lens, k + 1)

\* 'Total=<total>  (1)=<len1>;(2)=<len2>;...;(n)=<lenN>;'
SpanText(total, lens) ==
    TotalPrefix \o total \o <<" ", " ">> \o SpanFields(lens, 1)

TotalTexts == { <<"6", "4">>, <<"6", "0", ".", "4">> }

LengthTexts == { <<"1", "2">>, <<"1", "9">>, <<"1", "2", ".", "2">> }

SpanTexts ==
    UNION { { SpanText(t, lens) : t \in TotalTexts, lens \in [1..n -> LengthTexts] }
            : n \in 1..MaxSpans }

SpanInit ==
    /\ raw_spans \in SpanTexts
    /\ scan = [i |-> 0, spans |-> <<>>]
    /\ pc = "scan"
    /\ result = <<>>
    /\ bridges = <<>>
    /\ data = <<>> /\ raw_rows = <<>> /\ start_year = 0
    /\ QueryIdle
    /\ RouteIdle

\* a pass that reads the digits after an '=' and appends their value
SpanReadValue ==
    /\ pc = "scan"
    /\ scan.i < Len(raw_spans)
    /\ AtSpanValue(raw_spans, scan.i)
    /\ scan' = SpanStep(raw_spans, scan)
    /\ UNCHANGED <<bridges, pc, queryVars, routeVars, raw_spans, data,
                   raw_rows, start_year, result>>

\* a pass that moves one character on
SpanAdvance ==
    /\ pc = "scan"
    /\ scan.i < Len(raw_spans)
    /\ ~AtSpanValue(raw_spans, scan.i)
    /\ scan' = SpanStep(raw_spans, scan)
    /\ UNCHANGED <<bridges, pc, queryVars, routeVars, raw_spans, data,
                   raw_rows, start_year, result>>

SpanReturn ==
    /\ pc = "scan"
    /\ scan.i >= Len(raw_spans)
    /\ result' = scan.spans
    /\ pc' = "done"
    /\ UNCHANGED <<bridges, queryVars, routeVars, textVars>>

SpanNext == SpanReadValue \/ SpanAdvance \/ SpanReturn

SpanSpec == SpanInit /\ [][SpanNext]_vars

MaxTail == 3

\* the twelve fixed fields of two raw rows; the texts that clean_data does
\* not parse are left as plain strings
FixedFieldsA ==
    << <<"1", " ", "-", " ", " ", "3", "2", "/">>, "Highway 24 Underpass",
       "403", <<"4", "3", ".", "1", "6", "7", "2", "3", "3">>,
       <<"-", "8", "0", ".", "2", "7", "5", "5", "6", "7">>,
       "1965", "2014", "2009", <<"4">>,
       SpanText(<<"6", "4">>, << <<"1", "2">>, <<"1", "9">>, <<"2", "1">>,
                                 <<"1", "2">> >>),
       <<"6", "5">>, ExampleDate >>

FixedFieldsB ==
    << <<"2", " ", "-", " ", " ", "4", "3", "/">>, "WEST STREET UNDERPASS",
       "403", <<"4", "3", ".", "1", "6", "4", "5", "3", "1">>,
       <<"-", "8", "0", ".", "2", "5", "1", "5", "8", "2">>,
       "1963", "2014", "2007", <<"2">>,
       SpanText(<<"3", "6">>, << <<"1", "8">>, <<"1", "8">> >>),
       <<>>, ExampleDate >>

TailTexts == { <<>>, <<"7", "2", ".", "3">>, <<"7", "0">> }

\* the trailing fields of a row: one to MaxTail texts
Tails == UNION { [1..n -> TailTexts] : n \in 1..MaxTail }

\* no row, one row, two rows
RawData ==
    {<<>>} \cup { <<FixedFieldsA \o t>> : t \in Tails }
           \cup { <<FixedFieldsA \o t, FixedFieldsB \o u>> : t \in Tails, u \in Tails }

CleanInit ==
    /\ data \in RawData
    /\ raw_rows = data
    /\ start_year \in {StartYear, StartYear - 8}
    /\ raw_spans = <<>> /\ scan = [i |-> 0, spans |-> <<>>]
    /\ pc = "call"
    /\ result = <<>>
    /\ bridges = <<>>
    /\ QueryIdle
    /\ RouteIdle

CallCleanData ==
    /\ pc = "call"
    /\ data' = clean_data(data, start_year)
    /\ pc' = "done"
    /\ UNCHANGED <<bridges, queryVars, routeVars, raw_spans, scan, raw_rows,
                   start_year, result>>

CleanSpec == CleanInit /\ [][CallCleanData]_vars

----------------------------------------------------------------------------
(* Claims about the cleaner *)

RECURSIVE TextUpTo(_, _, _)
\* the characters of raw from position p (from 1) up to the next c
TextUpTo(raw, p, c) ==
    IF p > Len(raw) \/ raw[p] = c THEN <<>>
    ELSE <<raw[p]>> \o TextUpTo(raw, p + 1, c)

RECURSIVE LengthsFrom(_, _)
\* the numeric value of each <len> of the format, read as the text between
\* a ")=" and the next ";", from position p on
LengthsFrom(raw, p) ==
    IF p >= Len(raw) THEN <<>>
    ELSE IF raw[p] = ")" /\ raw[p + 1] = "="
         THEN <<float(TextUpTo(raw, p + 2, ";"))>> \o LengthsFrom(raw, p + 2)
         ELSE LengthsFrom(raw, p + 1)

\* C5: for a span text of the format clean_span_data returns exactly n
\* values, the i-th being the numeric value of <len_i> in textual order,
\* also when a length has a decimal point (12.2 yields 12.2); the '=' of
\* 'Total=' never produces a value.
C5_SpanValuesAsWritten ==
    pc = "done" => result = LengthsFrom(raw_spans, 1)

\* C6 as stated: a row of the fixed fields 0-11 and k >= 1 trailing fields
\* gets a history of exactly k scores and k years, the field at raw position
\* 12+i being the score of year start_year - i.
C6_EveryTrailingFieldIsAScore ==
    pc = "done" =>
        \A r \in 1..Len(raw_rows) :
            LET k     == Len(raw_rows[r]) - COLUMN_BCI
                hist  == data[r][COLUMN_BCI + 1]
                field(i) == raw_rows[r][COLUMN_BCI + i + 1]
            IN  /\ Len(hist[1]) = k
                /\ Len(hist[2]) = k
                /\ \A i \in 0..(k - 1) :
                      /\ hist[1][i + 1] = str(start_year - i)
                      /\ hist[2][i + 1] = (IF field(i) = <<>> THEN MISSING_BCI
                                           ELSE float(field(i)))

\* C6 amended: a row of the fixed fields 0-11 and k >= 1 trailing fields
\* gets a history of exactly k-1 scores and k-1 years, the field at raw
\* position 13+i being the score of year start_year - i (empty string ->
\* -1.0, otherwise its float value) for i in 0..k-2; the field at position
\* 12 is not a score and is overwritten by the history; the cleaned row has
\* 13 fields.
C6_FieldsAfterColumn12AreScores ==
    pc = "done" =>
        /\ Len(data) = Len(raw_rows)
        /\ \A r \in 1..Len(raw_rows) :
            LET k     == Len(raw_rows[r]) - COLUMN_BCI
                hist  == data[r][COLUMN_BCI + 1]
                field(i) == raw_rows[r][COLUMN_BCI + 1 + i + 1]
            IN  /\ Len(data[r]) = COLUMN_BCI + 1
                /\ Len(hist[1]) = k - 1
                /\ Len(hist[2]) = k - 1
                /\ \A i \in 0..(k - 2) :
                      /\ hist[1][i + 1] = str(start_year - i)
                      /\ hist[2][i + 1] = (IF field(i) = <<>> THEN MISSING_BCI
                                           ELSE float(field(i)))

C6_Witness ==
    /\ pc = "done"
    /\ Len(data) = 2
    /\ Len(raw_rows[2]) = COLUMN_BCI + 3
    /\ raw_rows[2][COLUMN_BCI + 1] = <<"7", "0">>
    /\ data[2][COLUMN_BCI + 1] =
          << <<str(start_year), str(start_year - 1)>>, <<MISSING_BCI, 72300000>> >>

----------------------------------------------------------------------------
(* Claims about the queries *)

RECURSIVE SumOf(_, _)
\* the sum of scores[k] for k in the set Q
SumOf(scores, Q) ==
    IF Q = {} THEN 0
    ELSE LET k == CHOOSE x \in Q : TRUE
         IN  scores[k] + SumOf(scores, Q \ {k})

\* the indices whose score counts between start and stop, both inclusive
Qualifying ==
    { k \in 1..Len(bridges[1].years) :
        /\ bridges[1].scores[k] # MISSING_BCI
        /\ start <= int(bridges[1].years[k])
        /\ int(bridges[1].years[k]) <= stop }

C8_InspectAddsEntry ==
    [][\A k \in 1..Len(bridges) :
          bridges'[k] # bridges[k] =>
             /\ Len(bridges'[k].years) = Len(bridges[k].years) + 1
             /\ Len(bridges'[k].scores) = Len(bridges[k].scores) + 1
             /\ bridges'[k].years[1] = Slice(bridges'[k].last_inspected, 6, 10)
             /\ bridges'[k].scores[1] \in InspectScores
             /\ Tail(bridges'[k].years) = bridges[k].years
             /\ Tail(bridges'[k].scores) = bridges[k].scores
             /\ \A m \in 1..Len(bridges) : m # k => bridges'[m] = bridges[m]]_vars

\* position of an id in a list (0 when absent)
IndexIn(list, x) ==
    IF \E k \in 1..Len(list) : list[k] = x
    THEN CHOOSE k \in 1..Len(list) :
            list[k] = x /\ \A m \in 1..(k - 1) : list[m] # x
    ELSE 0

WithinRadius(b) == calculate_distance(b.lat, b.lon, lat, lon) <= radius * Unit

\* C4: find_bridges_in_radius returns exactly the ids of the bridges at
\* distance <= radius from (lat, lon) that are not in exclusions, in the
\* order of the collection, and leaves the collection unchanged.
C4_RadiusQueryExact ==
    [][pc' = "done" =>
         /\ \A k \in 1..Len(bridges) :
               bridges[k].id \in Elems(result')
                  <=> (WithinRadius(bridges[k]) /\ bridges[k].id \notin Elems(bridge_ids))
         /\ Elems(result') \subseteq Ids(bridges)
         /\ \A a, b \in 1..Len(result') :
               a < b => IndexIn([k \in 1..Len(bridges) |-> bridges[k].id], result'[a])
                          < IndexIn([k \in 1..Len(bridges) |-> bridges[k].id], result'[b])
         /\ bridges' = bridges]_vars

C4_Witness ==
    /\ pc = "done"
    /\ Len(bridges) = 3
    /\ bridge_ids # <<>>
    /\ \E k \in 1..Len(bridges) :
          /\ calculate_distance(bridges[k].lat, bridges[k].lon, lat, lon) = radius * Unit
          /\ bridges[k].id \in Elems(result)

\* find_worst_bci's precondition: bridge_ids is non-empty, all its ids are in
\* the collection, and each of those bridges has a non-missing score
WorstPrecondition ==
    /\ bridge_ids # <<>>
    /\ Elems(bridge_ids) \subseteq Ids(bridges)
    /\ \A x \in Elems(bridge_ids) : get_bridge_condition(bridges, x) # MISSING_BCI

\* C3: under its precondition find_worst_bci returns the id in bridge_ids
\* whose most recent non-missing score is the lowest, and the smallest such
\* id when several share it, whatever the order of the bridges and the ids.
C3_WorstIsLowestSmallestId ==
    pc = "done" /\ WorstPrecondition =>
        /\ result \in Elems(bridge_ids)
        /\ \A x \in Elems(bridge_ids) :
              /\ get_bridge_condition(bridges, result) <= get_bridge_condition(bridges, x)
              /\ get_bridge_condition(bridges, result) = get_bridge_condition(bridges, x)
                    => result <= x

C3_Witness ==
    /\ pc = "done"
    /\ WorstPrecondition
    /\ \E a, b \in 1..Len(bridges) :
          /\ a < b
          /\ bridges[a].id > bridges[b].id
          /\ bridges[b].id = result
          /\ bridges[a].id \in Elems(bridge_ids)
          /\ get_bridge_condition(bridges, bridges[a].id)
                = get_bridge_condition(bridges, result)
    /\ \E x \in Elems(bridge_ids) :
          get_bridge_condition(bridges, x) > get_bridge_condition(bridges, result)

----------------------------------------------------------------------------
(* Claims about map_route *)

\* C1: the list map_route returns contains no element twice and every
\* element is the identifier of a bridge of the collection, whatever the
\* condition histories are.
C1_RouteDistinctBridgeIds ==
    pc = "done" => NoDuplicates(result) /\ Elems(result) \subseteq Ids(bridges)

\* C2: in the returned list the first bridge is within radius of the start
\* point and every later bridge is within radius of the bridge immediately
\* before it in the list.
C2_RouteStepsWithinRadius ==
    pc = "done" =>
        \A k \in 1..Len(result) :
            /\ result[k] \in Ids(bridges)
            /\ k > 1 => result[k - 1] \in Ids(bridges)
            /\ LET b == find_bridge_by_id(bridges, result[k])
                   p == IF k = 1 THEN <<lat, lon>>
                        ELSE LET a == find_bridge_by_id(bridges, result[k - 1])
                             IN  <<a.lat, a.lon>>
               IN  calculate_distance(b.lat, b.lon, p[1], p[2]) <= radius * Unit

\* C9 as stated: map_route terminates and the list it returns has at most
\* max_bridges elements, for every max_bridges, max_bridges <= 0 included.
C9_TerminatesAtMostMaxBridges ==
    /\ <>(pc = "done")
    /\ [](pc = "done" => Len(result) <= max_bridges)

\* C9 amended: map_route terminates and the list it returns has at most
\* max(max_bridges, 0) elements.
C9_TerminatesAtMostMaxOrZero ==
    /\ <>(pc = "done")
    /\ [](pc = "done" =>
            Len(result) <= (IF max_bridges < 0 THEN 0 ELSE max_bridges))

C9_Witness ==
    /\ pc = "done"
    /\ max_bridges >= 2
    /\ Len(result) = max_bridges
    /\ NoneId \in Elems(result)

RECURSIVE PositionAfter(_)
\* the current position once the first k identifiers are appended: the start
\* point, then the coordinates of the last appended bridge
PositionAfter(k) ==
    IF k = 0 THEN <<lat, lon>>
    ELSE IF visited[k] \in Ids(bridges)
         THEN LET b == find_bridge_by_id(bridges, visited[k])
              IN  <<b.lat, b.lon>>
         ELSE PositionAfter(k - 1)

\* C10: each identifier map_route appends is find_worst_bci of the radius
\* query at the current position with the identifiers appended so far
\* excluded, and map_route returns fewer than max_bridges identifiers only
\* when that query at the final position is empty.
C10_RouteIsGreedy ==
    /\ \A k \in 1..Len(visited) :
          LET p == PositionAfter(k - 1)
          IN  visited[k] =
                find_worst_bci(bridges,
                    find_bridges_in_radius(bridges, p[1], p[2], radius,
                                           SubSeq(visited, 1, k - 1)))
    /\ pc = "done" /\ Len(result) < max_bridges =>
          LET p == PositionAfter(Len(visited))
          IN  /\ result = visited
              /\ find_bridges_in_radius(bridges, p[1], p[2], radius, result) = <<>>

C10_Witness ==
    /\ pc = "done"
    /\ Len(result) = 2
    /\ Len(result) < max_bridges
    /\ Len(bridges) = 3
    /\ calculate_distance(PositionAfter(2)[1], PositionAfter(2)[2], lat, lon)
          > radius * Unit

====
